---- MODULE Spec2Model ----
(***************************************************************************)
(* A model of server.js: the socket.io topic registry (userCounts and the  *)
(* joinTopic / disconnect handlers), the CSV record codec (the encoding    *)
(* done by POST /save and parseCSVLine), and the per-user log store with   *)
(* getMessagesForTopic and GET /messages/:topic.                           *)
(*                                                                         *)
(* Conventions.                                                            *)
(*  - A JavaScript string is a sequence of characters, each character a    *)
(*    one-element TLA+ string; "ab" is <<"a", "b">> and '' is <<>>.        *)
(*    A run of ordinary characters that the code never looks into (an ISO  *)
(*    timestamp, the header line, a file name suffix) is written as one    *)
(*    element of the sequence; the tokenizer treats every ordinary         *)
(*    character alike, so the run behaves as any one of its characters.    *)
(*  - An optional JavaScript value (null / undefined or a value v) is the  *)
(*    empty tuple <<>> or the one-element tuple <<v>>.                     *)
(*  - A topic name of the registry is a TLA+ string; "" is the empty,      *)
(*    falsy, JavaScript string.                                            *)
(***************************************************************************)
EXTENDS Integers, Sequences, FiniteSets, TLC

\* ------------------------------------------------------------------ bounds

\* Number of client slots; a slot holds at most one live socket at a time.
NumClients == 2
\* Cap on a topic's count (the code has none; joinTopic is not taken at the cap).
MaxCount == 3

Clients == 1..NumClients
\* Topic names a client may send with joinTopic: the empty string and two others.
Topics == {"", "a", "b"}

VARIABLES
  userCounts,   \* server.js:12  topic -> count, a partial function (absent = undefined)
  connected,    \* client -> whether its socket is connected
  joinedTopic,  \* server.js:16  client -> <<>> (null) or <<topic>>, the closure variable
  rooms,        \* client -> set of topic rooms the socket is in (socket.join / socket.leave)
  emits,        \* the userCountUpdate emissions of the last handler run, in order
  ev,           \* the last event handled, with the registry state before it
  received,     \* client -> <<>> or <<n>>, the last userCountUpdate its socket received
  cReq,         \* codec: the body of a POST /save request
  cLine,        \* codec: the line POST /save builds for cReq, without its final \n
  cFields,      \* codec: parseCSVLine(cLine)
  cPc,          \* codec: "start", "encoded" or "decoded"
  files,        \* saved_messages/: file name -> content, a partial function
  http,         \* the last HTTP exchange: the request, the response, the files before it
  scanned,      \* last query: the messages in scan order, each with the line it came from
  sortedMessages, \* last query: the entries of scanned that are returned, in order
  saved,        \* the bodies of the POST /save requests served, in order
  handlers      \* the POST /save requests received, each with the position of its handler

regVars == <<userCounts, connected, joinedTopic, rooms, emits, ev, received>>
codecVars == <<cReq, cLine, cFields, cPc>>
storeVars == <<files, http, scanned, sortedMessages, saved, handlers>>
vars == <<regVars, codecVars, storeVars>>

\* ------------------------------------------------------------------- codec

\* Longest field value drawn for the codec runs.
MaxFieldLen == 2

Quote == "\""
Comma == ","
\* The characters field values are drawn from: an ordinary character, the delimiter,
\* the quote character, a blank and a line break.
Chars == {"x", Comma, Quote, " ", "\n"}
\* The characters String.prototype.trim removes that occur in the model.
WhiteSpace == {" ", "\n"}

\* All strings over Chars of length at most n.
Strs(n) == UNION {[1..k -> Chars] : k \in 0..n}

\* ISO timestamps, each one ordinary run of characters.
T1 == <<"2024-01-01T00:00:00Z">>
T1b == <<"2024-01-01T00:00:00.000Z">>
T2 == <<"2024-01-02T00:00:00Z">>
T3 == <<"2024-01-03T00:00:00Z">>

\* str.replace(/"/g, '""')
RECURSIVE EscapeQuotes(_)
EscapeQuotes(s) ==
  IF s = <<>> THEN <<>>
  ELSE (IF Head(s) = Quote THEN <<Quote, Quote>> ELSE <<Head(s)>>) \o EscapeQuotes(Tail(s))

\* (v || ''): an undefined or empty value gives ''.
OrEmpty(opt) == IF opt = <<>> THEN <<>> ELSE opt[1]

\* (a || b): a when it is a non-empty string, else b.
OrElse(a, b) == IF a # <<>> /\ a[1] # <<>> THEN a ELSE b

\* `${v}` in a template literal: undefined is rendered as the text undefined.
Interpolate(opt) == IF opt = <<>> THEN <<"undefined">> ELSE opt[1]

\* POST /save, server.js:177-182: the CSV line for a request body, without the
\* final line break.
SaveLineBody(req) ==
  LET safePayload == EscapeQuotes(OrEmpty(req.payload))
      safeTopic == EscapeQuotes(OrEmpty(req.topic))
      safeSender == EscapeQuotes(OrEmpty(OrElse(req.sender, req.username)))
  IN Interpolate(req.timestamp) \o <<Comma, Quote>> \o safeTopic
       \o <<Quote, Comma, Quote>> \o safeSender
       \o <<Quote, Comma, Quote>> \o safePayload \o <<Quote>>

\* The line as appended to the file.
SaveLine(req) == SaveLineBody(req) \o <<"\n">>

\* String.prototype.trim
RECURSIVE TrimLeft(_)
TrimLeft(s) == IF s # <<>> /\ Head(s) \in WhiteSpace THEN TrimLeft(Tail(s)) ELSE s

RECURSIVE TrimRight(_)
TrimRight(s) ==
  IF s # <<>> /\ s[Len(s)] \in WhiteSpace THEN TrimRight(SubSeq(s, 1, Len(s) - 1)) ELSE s

Trim(s) == TrimRight(TrimLeft(s))

\* The loop of parseCSVLine, server.js:66-85, from index i (1-based) on; its value
\* is the state the loop ends in.
RECURSIVE ParseLoop(_, _, _, _, _)
ParseLoop(line, i, current, inQuotes, result) ==
  IF i > Len(line)
    THEN [result |-> result, current |-> current, inQuotes |-> inQuotes]
    ELSE
      LET char == line[i]
          nextIsQuote == i + 1 <= Len(line) /\ line[i + 1] = Quote
      IN IF char = Quote /\ inQuotes /\ nextIsQuote
           THEN ParseLoop(line, i + 2, Append(current, Quote), inQuotes, result)
         ELSE IF char = Quote
           THEN ParseLoop(line, i + 1, current, ~inQuotes, result)
         ELSE IF char = Comma /\ ~inQuotes
           THEN ParseLoop(line, i + 1, <<>>, inQuotes, Append(result, Trim(current)))
         ELSE ParseLoop(line, i + 1, Append(current, char), inQuotes, result)

\* if (current) { result.push(current.trim()) }, server.js:87-89
PushLast(end) ==
  IF end.current # <<>> THEN Append(end.result, Trim(end.current)) ELSE end.result

\* parseCSVLine(line), server.js:60-92.  It has no failure exit: it returns a field
\* list for every string.
parseCSVLine(line) == PushLast(ParseLoop(line, 1, <<>>, FALSE, <<>>))

\* Whether the end of the line is reached while still inside quotes.
EndsInQuotes(line) == ParseLoop(line, 1, <<>>, FALSE, <<>>).inQuotes

\* -------------------------------------------------------------- codec runs

\* Timestamps of the requests of the codec runs: an ISO timestamp, an undefined
\* one, and one that holds the delimiter.
CodecTimestamps == {<<T1>>, <<>>, <<<<"x", Comma, "x">>>>}

CodecRequests ==
  [timestamp : CodecTimestamps,
   topic : {<<v>> : v \in Strs(MaxFieldLen)},
   sender : {<<v>> : v \in Strs(MaxFieldLen)},
   payload : {<<v>> : v \in Strs(MaxFieldLen)},
   username : {<< <<"al">> >>}]

\* No request: the codec is not exercised.
NoRequest ==
  [timestamp |-> <<>>, topic |-> <<>>, sender |-> <<>>, payload |-> <<>>, username |-> <<>>]

Encode ==
  /\ cPc = "start"
  /\ cLine' = SaveLineBody(cReq)
  /\ cPc' = "encoded"
  /\ UNCHANGED <<cReq, cFields, regVars, storeVars>>

Decode ==
  /\ cPc = "encoded"
  /\ cFields' = parseCSVLine(cLine)
  /\ cPc' = "decoded"
  /\ UNCHANGED <<cReq, cLine, regVars, storeVars>>

CodecNext == Encode \/ Decode

\* --------------------------------------------------------------- log store

\* Number of POST /save requests in a run of the store.
MaxSaves == 2

\* const limit = parseInt(req.query.limit) || 10, server.js:147
DefaultLimit == 10

\* 'Timestamp,Topic,Sender,Message\n', server.js:186; the header line is never
\* tokenized (slice(1) drops it), so it is one run of characters.
Header == <<"Timestamp,Topic,Sender,Message", "\n">>

\* `${username}_messages.csv`, server.js:173
FileName(username) == Interpolate(username) \o <<"_messages.csv">>

\* A save that writes the header without the existsSync test: what server.js:185
\* guards against.
WriteLineWithHeader(fs, name, line) ==
  LET before == (IF name \in DOMAIN fs THEN fs[name] ELSE <<>>) \o Header
  IN [n \in DOMAIN fs \cup {name} |-> IF n = name THEN before \o line ELSE fs[n]]

\* fs.writeFileSync(filePath, header) when the file does not exist, then
\* fs.appendFileSync(filePath, line), server.js:185-192
WriteLine(fs, name, line) ==
  LET before == IF name \in DOMAIN fs THEN fs[name] ELSE Header
  IN [n \in DOMAIN fs \cup {name} |-> IF n = name THEN before \o line ELSE fs[n]]

\* content.split('\n')
RECURSIVE SplitLines(_, _)
SplitLines(content, cur) ==
  IF content = <<>> THEN <<cur>>
  ELSE IF Head(content) = "\n" THEN <<cur>> \o SplitLines(Tail(content), <<>>)
  ELSE SplitLines(Tail(content), Append(cur, Head(content)))

\* content.split('\n').slice(1), server.js:105
DataLines(content) == Tail(SplitLines(content, <<>>))

\* The body of the loop over the lines, server.js:108-125: the messages a line adds
\* to the list, none or one.  The field line is not a property of the JavaScript
\* object: it keeps the log line the message was built from.
LineMessages(line, topic) ==
  IF Trim(line) = <<>> THEN <<>>
  ELSE LET fields == parseCSVLine(line)
       IN IF Len(fields) >= 4 /\ fields[2] = topic
            THEN <<[timestamp |-> fields[1], topic |-> fields[2], username |-> fields[3],
                    message |-> fields[4], sender |-> fields[3], line |-> line]>>
            ELSE <<>>

RECURSIVE LinesMessages(_, _)
LinesMessages(lines, topic) ==
  IF lines = <<>> THEN <<>>
  ELSE LineMessages(Head(lines), topic) \o LinesMessages(Tail(lines), topic)

\* The loop over the files, server.js:102-127, in the order readdirSync lists them.
RECURSIVE ScanFiles(_, _, _)
ScanFiles(fs, order, topic) ==
  IF order = <<>> THEN <<>>
  ELSE LinesMessages(DataLines(fs[Head(order)]), topic) \o ScanFiles(fs, Tail(order), topic)

\* The orders fs.readdirSync may list the files in: Node documents none.
ReaddirOrders(fs) ==
  {o \in [1..Cardinality(DOMAIN fs) -> DOMAIN fs] : \A i, j \in DOMAIN o : i # j => o[i] # o[j]}

\* new Date(timestamp) as a time value in seconds since the epoch, <<>> for an
\* invalid date (NaN).  Of the strings of the model only the ISO timestamps parse.
DateValue(ts) ==
  IF ts = T1 \/ ts = T1b THEN <<1704067200>>
  ELSE IF ts = T2 THEN <<1704153600>>
  ELSE IF ts = T3 THEN <<1704240000>>
  ELSE <<>>

\* The comparator of server.js:131 as the sort sees it: the sign of the difference,
\* and 0 when the difference is NaN.
Compare(a, b) ==
  LET x == DateValue(a.timestamp)
      y == DateValue(b.timestamp)
  IN IF x = <<>> \/ y = <<>> THEN 0
     ELSE IF x[1] < y[1] THEN -1
     ELSE IF x[1] > y[1] THEN 1
     ELSE 0

\* messages.sort(comparator), server.js:130-131, as V8 (Node.js 11 and later) sorts
\* an array shorter than 64 elements: TimSort finds the run the array starts with
\* (reversing it when it is strictly descending) and inserts the other elements into
\* it one by one by binary search.  With a comparator that is a consistent ordering
\* this is the stable sort; with NaN results (taken as 0) it is what V8 returns.

\* The length of the run that starts the array; idx is the position being looked at.
RECURSIVE RunLength(_, _, _)
RunLength(a, idx, descending) ==
  IF idx > Len(a) THEN Len(a)
  ELSE LET order == Compare(a[idx], a[idx - 1])
       IN IF (descending /\ order >= 0) \/ (~descending /\ order < 0)
            THEN idx - 1
            ELSE RunLength(a, idx + 1, descending)

Reverse(a) == [i \in 1..Len(a) |-> a[Len(a) + 1 - i]]

\* The array with its first run made ascending, and the length of that run.
CountAndMakeRun(a) ==
  LET descending == Compare(a[2], a[1]) < 0
      n == RunLength(a, 3, descending)
  IN [array |-> IF descending THEN Reverse(SubSeq(a, 1, n)) \o SubSeq(a, n + 1, Len(a))
                ELSE a,
      run |-> n]

\* The place of the pivot among a[1..start-1]: left and right are 0-based, as in V8.
RECURSIVE InsertionPoint(_, _, _, _)
InsertionPoint(a, pivot, left, right) ==
  IF left >= right THEN left
  ELSE LET mid == left + ((right - left) \div 2)
       IN IF Compare(pivot, a[mid + 1]) < 0
            THEN InsertionPoint(a, pivot, left, mid)
            ELSE InsertionPoint(a, pivot, mid + 1, right)

\* Inserts a[start], a[start + 1], ... into the sorted a[1..start-1].
RECURSIVE BinaryInsertionSort(_, _)
BinaryInsertionSort(a, start) ==
  IF start > Len(a) THEN a
  ELSE LET pivot == a[start]
           at == InsertionPoint(a, pivot, 0, start - 1)
       IN BinaryInsertionSort(SubSeq(a, 1, at) \o <<pivot>> \o SubSeq(a, at + 1, start - 1)
                                \o SubSeq(a, start + 1, Len(a)),
                              start + 1)

ArraySort(a) ==
  IF Len(a) < 2 THEN a
  ELSE LET made == CountAndMakeRun(a)
       IN BinaryInsertionSort(made.array, made.run + 1)

\* array.slice(-limit), server.js:132: from index len - limit (not below 0) when
\* -limit is negative, from index -limit (not above len) otherwise; -0 is 0.
SliceLast(msgs, limit) ==
  LET len == Len(msgs)
      start == 0 - limit
      k == IF start < 0 THEN (IF len + start > 0 THEN len + start ELSE 0)
           ELSE (IF start < len THEN start ELSE len)
  IN SubSeq(msgs, k + 1, len)

\* parseInt of a decimal string: <<n>>, or <<>> for NaN.
DigitValue ==
  [d \in {"0", "1", "2", "3", "4", "5", "6", "7", "8", "9"} |->
     CASE d = "0" -> 0 [] d = "1" -> 1 [] d = "2" -> 2 [] d = "3" -> 3 [] d = "4" -> 4
       [] d = "5" -> 5 [] d = "6" -> 6 [] d = "7" -> 7 [] d = "8" -> 8 [] d = "9" -> 9]

RECURSIVE ParseDigits(_, _, _)
ParseDigits(s, acc, seen) ==
  IF s # <<>> /\ Head(s) \in DOMAIN DigitValue
    THEN ParseDigits(Tail(s), 10 * acc + DigitValue[Head(s)], TRUE)
    ELSE IF seen THEN <<acc>> ELSE <<>>

ParseInt(opt) ==
  IF opt = <<>> THEN <<>>
  ELSE LET s == TrimLeft(opt[1])
           neg == s # <<>> /\ Head(s) = "-"
           rest == IF s # <<>> /\ Head(s) \in {"-", "+"} THEN Tail(s) ELSE s
           n == ParseDigits(rest, 0, FALSE)
       IN IF n = <<>> THEN <<>> ELSE IF neg THEN <<0 - n[1]>> ELSE n

\* The limit with another fallback: parseInt(req.query.limit) || 1.
QueryLimitFallbackOne(param) ==
  LET n == ParseInt(param)
  IN IF n = <<>> \/ n[1] = 0 THEN 1 ELSE n[1]

\* parseInt(req.query.limit) || 10, server.js:147: NaN and 0 give the default.
QueryLimit(param) ==
  LET n == ParseInt(param)
  IN IF n = <<>> \/ n[1] = 0 THEN DefaultLimit ELSE n[1]

\* ---------------------------------------------------------- store requests

\* The bodies of POST /save requests: every field may be missing.
SaveTimestamps == {<<>>, <<T1>>, <<T2>>}
SaveTopics == {<<>>, << <<"a">> >>, << <<"b">> >>}
SaveSenders == {<<>>}
SaveUsernames == {<<>>, << <<>> >>, << <<"al">> >>}
SavePayloads == {<< <<>> >>, << <<"x">> >>, << <<"x", "\n", "y">> >>}

SaveRequests ==
  [timestamp : SaveTimestamps, topic : SaveTopics, sender : SaveSenders,
   payload : SavePayloads, username : SaveUsernames]

\* The :topic of GET /messages/:topic (a route parameter is never empty) and the
\* limit query parameter: missing, 0, 1, -1 and a non-numeric one.
QueryTopics == {<<"a">>, <<"b">>}
LimitParams == {<<>>, << <<"0">> >>, << <<"1">> >>, << <<"-", "1">> >>, << <<"z">> >>}

NoExchange == [op |-> "none"]

\* app.post('/save'), server.js:166-201.  The fs calls are synchronous: the handler
\* runs to its end before another request is served.
SaveMessage(req) ==
  /\ Len(saved) < MaxSaves
  /\ files' = WriteLine(files, FileName(req.username), SaveLine(req))
  /\ http' = [op |-> "save", req |-> req, preFiles |-> files, status |-> 200,
              success |-> TRUE, fault |-> "none"]
  /\ scanned' = <<>>
  /\ sortedMessages' = <<>>
  /\ saved' = Append(saved, req)
  /\ UNCHANGED <<handlers, regVars, codecVars>>

\* getMessagesForTopic(topic, limit), server.js:95-141: the values it may return,
\* one for each order the files may be listed in.  Each is the pair of the scanned
\* list and the returned list.
getMessagesForTopic(fs, topic, limit) ==
  {LET msgs == ScanFiles(fs, order, topic)
   IN [scanned |-> msgs, sortedMessages |-> SliceLast(ArraySort(msgs), limit)] :
     order \in ReaddirOrders(fs)}

\* app.get('/messages/:topic'), server.js:144-163
GetMessages(topic, param) ==
  /\ \E out \in getMessagesForTopic(files, topic, QueryLimit(param)) :
       /\ scanned' = out.scanned
       /\ sortedMessages' = out.sortedMessages
       /\ http' = [op |-> "messages", topic |-> topic, param |-> param,
                   limit |-> QueryLimit(param), status |-> 200,
                   success |-> TRUE, count |-> Len(out.sortedMessages),
                   fault |-> "none"]
  /\ UNCHANGED <<files, saved, handlers, regVars, codecVars>>

StoreNext ==
  \/ \E req \in SaveRequests : SaveMessage(req)
  \/ \E topic \in QueryTopics, param \in LimitParams : GetMessages(topic, param)

\* The saves alone.
AppendNext == \E req \in SaveRequests : SaveMessage(req)

\* ------------------------------------------------------------ storage faults

\* The requests served while the storage may fail: two users, one topic.
FaultRequests ==
  [timestamp : {<<T1>>, <<T2>>}, topic : {<< <<"a">> >>}, sender : {<<>>},
   payload : {<< <<"x">> >>}, username : {<< <<"al">> >>, << <<"bo">> >>}]

\* The fs calls of app.post('/save') that may throw.
SaveFaults == {"writeFileSync", "appendFileSync"}

\* app.post('/save') when an fs call throws, server.js:185-200: the catch answers
\* 500 with success false.  writeFileSync is called only for a file that does not
\* exist; when appendFileSync is the call that throws, the header of a new file
\* has been written already.
SaveMessageFault(req, at) ==
  LET name == FileName(req.username)
  IN /\ at = "writeFileSync" => name \notin DOMAIN files
     /\ files' = IF at = "appendFileSync" /\ name \notin DOMAIN files
                   THEN [n \in DOMAIN files \cup {name} |->
                           IF n = name THEN Header ELSE files[n]]
                   ELSE files
     /\ http' = [op |-> "save", req |-> req, preFiles |-> files, status |-> 500,
                 success |-> FALSE, fault |-> at]
     /\ scanned' = <<>>
     /\ sortedMessages' = <<>>
     /\ UNCHANGED <<saved, handlers, regVars, codecVars>>

\* app.get('/messages/:topic') when fs.readdirSync or fs.readFileSync throws inside
\* getMessagesForTopic, server.js:96-140: the catch of getMessagesForTopic returns
\* [], whatever was read so far, and the handler answers with it, server.js:152-157.
GetMessagesFault(topic, param) ==
  /\ scanned' = <<>>
  /\ sortedMessages' = <<>>
  /\ http' = [op |-> "messages", topic |-> topic, param |-> param,
              limit |-> QueryLimit(param), status |-> 200,
              success |-> TRUE, count |-> 0, fault |-> "read"]
  /\ UNCHANGED <<files, saved, handlers, regVars, codecVars>>

FaultNext ==
  \/ \E req \in FaultRequests : SaveMessage(req)
  \/ \E req \in FaultRequests, at \in SaveFaults : SaveMessageFault(req, at)
  \/ GetMessages(<<"a">>, <<>>)
  \/ GetMessagesFault(<<"a">>, <<>>)

\* ------------------------------------------------------- the limit parameter

\* The limit query parameter: missing, "z", "1z" and "10".
FallbackLimitParams ==
  {<<>>, << <<"z">> >>, << <<"1", "z">> >>, << <<"1", "0">> >>}

LimitNext ==
  \/ \E req \in FaultRequests : SaveMessage(req)
  \/ \E param \in FallbackLimitParams : GetMessages(<<"a">>, param)

\* ------------------------------------------------------- overlapping saves

\* Number of POST /save requests received, served or not.
MaxInflight == 3

\* The bodies of the overlapping requests: two users, two payloads.
OverlappingRequests ==
  [timestamp : {<<T1>>}, topic : {<< <<"a">> >>}, sender : {<<>>},
   payload : {<< <<"x">> >>, << <<"y">> >>}, username : {<< <<"al">> >>, << <<"bo">> >>}]

\* Handlers whose steps interleave with no restriction, as handlers that awaited
\* their fs calls would.
Interleaved(i) == TRUE

\* The handler of POST /save calls existsSync, writeFileSync and appendFileSync,
\* server.js:185-192, with no await and no callback between them: once it starts,
\* the event loop runs no other handler until it has answered.
RunToCompletion(i) ==
  \A j \in 1..Len(handlers) : j # i => handlers[j].pc \in {"received", "done"}

\* A POST /save request reaches the server; its handler has not run yet.
Receive(req) ==
  /\ Len(handlers) < MaxInflight
  /\ handlers' = Append(handlers, [req |-> req, pc |-> "received"])
  /\ UNCHANGED <<files, http, scanned, sortedMessages, saved, regVars, codecVars>>

\* server.js:168-185: the handler builds the line and tests fs.existsSync(filePath).
SaveExists(i) ==
  /\ handlers[i].pc = "received"
  /\ RunToCompletion(i)
  /\ handlers' = [handlers EXCEPT ![i].pc =
                    IF FileName(handlers[i].req.username) \in DOMAIN files
                      THEN "append" ELSE "header"]
  /\ UNCHANGED <<files, http, scanned, sortedMessages, saved, regVars, codecVars>>

\* server.js:186-187: fs.writeFileSync(filePath, header) replaces the content of the
\* file, if any, with the header.
SaveHeader(i) ==
  /\ handlers[i].pc = "header"
  /\ RunToCompletion(i)
  /\ files' = LET name == FileName(handlers[i].req.username)
              IN [n \in DOMAIN files \cup {name} |-> IF n = name THEN Header ELSE files[n]]
  /\ handlers' = [handlers EXCEPT ![i].pc = "append"]
  /\ UNCHANGED <<http, scanned, sortedMessages, saved, regVars, codecVars>>

\* server.js:192-195: fs.appendFileSync(filePath, line), which creates a missing
\* file, and the answer.
SaveAppend(i) ==
  /\ handlers[i].pc = "append"
  /\ RunToCompletion(i)
  /\ files' = LET name == FileName(handlers[i].req.username)
                  line == SaveLine(handlers[i].req)
              IN [n \in DOMAIN files \cup {name} |->
                    IF n = name
                      THEN (IF name \in DOMAIN files THEN files[name] ELSE <<>>) \o line
                      ELSE files[n]]
  /\ http' = [op |-> "save", req |-> handlers[i].req, preFiles |-> files,
              status |-> 200, success |-> TRUE, fault |-> "none"]
  /\ saved' = Append(saved, handlers[i].req)
  /\ handlers' = [handlers EXCEPT ![i].pc = "done"]
  /\ UNCHANGED <<scanned, sortedMessages, regVars, codecVars>>

OverlapNext ==
  \/ \E req \in OverlappingRequests : Receive(req)
  \/ \E i \in 1..Len(handlers) : SaveExists(i)
  \/ \E i \in 1..Len(handlers) : SaveHeader(i)
  \/ \E i \in 1..Len(handlers) : SaveAppend(i)

\* --------------------------------------------------------- query over a store

\* Number of records in the stores getMessagesForTopic is applied to.
MaxRecords == 3

\* The requests that built those stores: two users, two topics, timestamps that
\* are missing, equal as points in time (T1, T1b) and later (T2).
StoredRequests ==
  [timestamp : {<<>>, <<T1>>, <<T1b>>, <<T2>>}, topic : {<< <<"a">> >>, << <<"b">> >>},
   sender : {<<>>}, payload : {<< <<"x">> >>},
   username : {<< <<"al">> >>, << <<"bo">> >>}]

\* saved_messages/ after POST /save has served the requests in order.
RECURSIVE StoreAfter(_)
StoreAfter(reqs) ==
  IF reqs = <<>> THEN << >>
  ELSE LET last == reqs[Len(reqs)]
       IN WriteLine(StoreAfter(SubSeq(reqs, 1, Len(reqs) - 1)),
                    FileName(last.username), SaveLine(last))

OrderingLimitParams == {<<>>, << <<"1">> >>, << <<"2">> >>}

QueryNext == \E param \in OrderingLimitParams : GetMessages(<<"a">>, param)

\* --------------------------------------------------------- registry helpers

\* JavaScript truthiness of the closure variable joinedTopic: null and '' are falsy.
TruthyTopic(j) == j # <<>> /\ j[1] # ""

\* userCounts[t] as a number, 0 standing for undefined in (userCounts[t] || 0).
CountOr0(counts, t) == IF t \in DOMAIN counts THEN counts[t] ELSE 0

\* JavaScript truthiness of userCounts[t]: undefined and 0 are falsy.
TruthyCount(counts, t) == t \in DOMAIN counts /\ counts[t] # 0

\* userCounts[t] = v
Put(counts, t, v) == [x \in DOMAIN counts \cup {t} |-> IF x = t THEN v ELSE counts[x]]

\* Math.max(0, n)
Max0(n) == IF n > 0 THEN n ELSE 0

\* The sockets io.to(t) reaches: the connected sockets that are in room t.
RoomMembers(rm, conn, t) == {c \in Clients : conn[c] /\ t \in rm[c]}

\* io.to(t).emit('userCountUpdate', n)
Emission(rm, conn, t, n) == [topic |-> t, count |-> n, to |-> RoomMembers(rm, conn, t)]

\* if (userCounts[t]) { userCounts[t] = Math.max(0, userCounts[t] - 1); emit }
DecrementedCounts(counts, t) ==
  IF TruthyCount(counts, t) THEN Put(counts, t, Max0(counts[t] - 1)) ELSE counts

DecrementEmits(counts, rm, conn, t) ==
  IF TruthyCount(counts, t)
    THEN <<Emission(rm, conn, t, DecrementedCounts(counts, t)[t])>>
    ELSE <<>>

\* socket.leave(t) / socket.join(t)
LeaveRoom(rm, c, t) == [rm EXCEPT ![c] = @ \ {t}]
JoinRoom(rm, c, t) == [rm EXCEPT ![c] = @ \cup {t}]

\* The delivery of emissions, in order: each socket an emission reaches keeps its
\* count as the last one received.
RECURSIVE Deliver(_, _)
Deliver(recv, es) ==
  IF es = <<>> THEN recv
  ELSE Deliver([c \in Clients |-> IF c \in Head(es).to THEN <<Head(es).count>> ELSE recv[c]],
               Tail(es))

Event(op, c, topic) ==
  [op |-> op, client |-> c, topic |-> topic,
   preCounts |-> userCounts, preJoined |-> joinedTopic, preRooms |-> rooms,
   preConnected |-> connected]

\* ------------------------------------------------------------ registry init

\* No event handled yet.
NoEvent ==
  [op |-> "init", client |-> 0, topic |-> <<>>,
   preCounts |-> << >>, preJoined |-> [c \in Clients |-> <<>>],
   preRooms |-> [c \in Clients |-> {}],
   preConnected |-> [c \in Clients |-> FALSE]]

\* --------------------------------------------------------- registry actions

\* io.on('connection'): a new socket, with its own closure variable joinedTopic = null.
Connect(c) ==
  /\ ~connected[c]
  /\ connected' = [connected EXCEPT ![c] = TRUE]
  /\ joinedTopic' = [joinedTopic EXCEPT ![c] = <<>>]
  /\ rooms' = [rooms EXCEPT ![c] = {}]
  /\ emits' = <<>>
  /\ received' = [received EXCEPT ![c] = <<>>]
  /\ ev' = Event("connect", c, <<>>)
  /\ UNCHANGED <<userCounts, codecVars, storeVars>>

\* socket.on('joinTopic', (topic) => ...)
JoinTopic(c, topic) ==
  /\ connected[c]
  /\ CountOr0(userCounts, topic) < MaxCount
  /\ LET old == joinedTopic[c]
         leaving == TruthyTopic(old)
         rooms1 == IF leaving THEN LeaveRoom(rooms, c, old[1]) ELSE rooms
         counts1 == IF leaving THEN DecrementedCounts(userCounts, old[1]) ELSE userCounts
         emits1 == IF leaving THEN DecrementEmits(userCounts, rooms1, connected, old[1])
                              ELSE <<>>
         rooms2 == JoinRoom(rooms1, c, topic)
         counts2 == Put(counts1, topic, CountOr0(counts1, topic) + 1)
     IN /\ joinedTopic' = [joinedTopic EXCEPT ![c] = <<topic>>]
        /\ rooms' = rooms2
        /\ userCounts' = counts2
        /\ emits' = Append(emits1, Emission(rooms2, connected, topic, counts2[topic]))
        /\ received' = Deliver(received,
                               Append(emits1, Emission(rooms2, connected, topic, counts2[topic])))
  /\ ev' = Event("joinTopic", c, <<topic>>)
  /\ UNCHANGED <<connected, codecVars, storeVars>>

\* socket.on('disconnect'): socket.io has already taken the socket out of its rooms
\* when the handler runs.
Disconnect(c) ==
  /\ connected[c]
  /\ LET old == joinedTopic[c]
         conn1 == [connected EXCEPT ![c] = FALSE]
         rooms1 == [rooms EXCEPT ![c] = {}]
         dec == TruthyTopic(old)
     IN /\ connected' = conn1
        /\ rooms' = rooms1
        /\ userCounts' = IF dec THEN DecrementedCounts(userCounts, old[1]) ELSE userCounts
        /\ emits' = IF dec THEN DecrementEmits(userCounts, rooms1, conn1, old[1]) ELSE <<>>
        /\ received' = Deliver(received, IF dec THEN DecrementEmits(userCounts, rooms1, conn1, old[1])
                                                  ELSE <<>>)
  /\ ev' = Event("disconnect", c, <<>>)
  /\ UNCHANGED <<joinedTopic, codecVars, storeVars>>

RegNext ==
  \/ \E c \in Clients : Connect(c)
  \/ \E c \in Clients, t \in Topics : JoinTopic(c, t)
  \/ \E c \in Clients : Disconnect(c)

\* -------------------------------------------------------------- specifications

\* The server after start: userCounts = {}, no socket, an empty saved_messages/.
Init ==
  /\ userCounts = << >>
  /\ connected = [c \in Clients |-> FALSE]
  /\ joinedTopic = [c \in Clients |-> <<>>]
  /\ rooms = [c \in Clients |-> {}]
  /\ emits = <<>>
  /\ ev = NoEvent
  /\ received = [c \in Clients |-> <<>>]
  /\ cReq = NoRequest
  /\ cLine = <<>>
  /\ cFields = <<>>
  /\ cPc = "idle"
  /\ files = << >>
  /\ http = NoExchange
  /\ scanned = <<>>
  /\ sortedMessages = <<>>
  /\ saved = <<>>
  /\ handlers = <<>>

\* The topic registry.
Spec == Init /\ [][RegNext]_vars

\* A request body drawn for the codec.
CodecInit ==
  /\ cReq \in CodecRequests
  /\ cLine = <<>>
  /\ cFields = <<>>
  /\ cPc = "start"
  /\ userCounts = << >>
  /\ connected = [c \in Clients |-> FALSE]
  /\ joinedTopic = [c \in Clients |-> <<>>]
  /\ rooms = [c \in Clients |-> {}]
  /\ emits = <<>>
  /\ ev = NoEvent
  /\ received = [c \in Clients |-> <<>>]
  /\ files = << >>
  /\ http = NoExchange
  /\ scanned = <<>>
  /\ sortedMessages = <<>>
  /\ saved = <<>>
  /\ handlers = <<>>

\* The record codec: POST /save's encoding followed by parseCSVLine.
SpecCodec == CodecInit /\ [][CodecNext]_vars

\* The log store: POST /save and GET /messages/:topic, from an empty saved_messages/.
SpecStore == Init /\ [][StoreNext]_vars

\* A store of up to MaxRecords records, as POST /save leaves it.
QueryInit ==
  /\ \E n \in 0..MaxRecords : saved \in [1..n -> StoredRequests]
  /\ handlers = <<>>
  /\ files = StoreAfter(saved)
  /\ http = NoExchange
  /\ scanned = <<>>
  /\ sortedMessages = <<>>
  /\ userCounts = << >>
  /\ connected = [c \in Clients |-> FALSE]
  /\ joinedTopic = [c \in Clients |-> <<>>]
  /\ rooms = [c \in Clients |-> {}]
  /\ emits = <<>>
  /\ ev = NoEvent
  /\ received = [c \in Clients |-> <<>>]
  /\ cReq = NoRequest
  /\ cLine = <<>>
  /\ cFields = <<>>
  /\ cPc = "idle"

\* getMessagesForTopic applied to the stores of up to MaxRecords records.
SpecQuery == QueryInit /\ [][QueryNext]_vars

\* The log store under saves alone.
SpecAppend == Init /\ [][AppendNext]_vars

\* Queries with and without a usable limit parameter.
SpecLimit == Init /\ [][LimitNext]_vars

\* Overlapping POST /save requests, handler step by handler step.
SpecOverlap == Init /\ [][OverlapNext]_vars

\* The log store with storage faults.
SpecFault == Init /\ [][FaultNext]_vars

\* ------------------------------------------------------------ registry claims

\* The clients that are connected and whose current joined topic is t.
JoinedClients(t) == {c \in Clients : connected[c] /\ joinedTopic[c] = <<t>>}

\* C1: every entry of userCounts is an integer >= 0 and equals the number of
\* currently connected clients whose current joined topic is that topic, after any
\* sequence of joinTopic and disconnect events, for any topic names.
C1_RegistryInvariant ==
  \A t \in DOMAIN userCounts :
    /\ userCounts[t] \in Nat
    /\ userCounts[t] = Cardinality(JoinedClients(t))

\* C5: a userCountUpdate emitted for a topic is delivered only to connected clients
\* whose current joined topic is that topic: never to a client joined to another
\* topic (a client that has just switched included) nor to a disconnected client.
C5_TopicIsolation ==
  \A i \in 1..Len(emits) :
    \A c \in emits[i].to :
      connected[c] /\ joinedTopic[c] = <<emits[i].topic>>

\* C7: when a client already joined to topic t issues joinTopic(t) again, the count
\* of t after the call equals its count before the call, and the call emits two
\* userCountUpdate notifications for t: the decremented count, then the restored one.
C7_IdempotentRejoin ==
  (ev.op = "joinTopic" /\ ev.preJoined[ev.client] = ev.topic) =>
    LET t == ev.topic[1]
        before == CountOr0(ev.preCounts, t)
    IN /\ CountOr0(userCounts, t) = before
       /\ Len(emits) = 2
       /\ emits[1].topic = t /\ emits[1].count = before - 1
       /\ emits[2].topic = t /\ emits[2].count = before

\* --------------------------------------------------------------- codec claims

\* The sender a record is stored with: the request's sender, or the username of the
\* owning log when the sender is empty.
RecordSender(req) == OrEmpty(OrElse(req.sender, req.username))

\* C2: for every message record (any timestamp, topic, sender and body, commas,
\* quote characters, leading or trailing whitespace and empty values included),
\* parseCSVLine of the line POST /save encodes yields four fields whose topic, sender
\* and body are exactly the original values.
C2_CodecRoundTrip ==
  cPc = "decoded" =>
    /\ Len(cFields) = 4
    /\ cFields[2] = OrEmpty(cReq.topic)
    /\ cFields[3] = RecordSender(cReq)
    /\ cFields[4] = OrEmpty(cReq.payload)

\* --------------------------------------------------------------- store claims

\* The record a POST /save request stores: its topic, sender and body.
SavedRecord(req) ==
  [topic |-> OrEmpty(req.topic), sender |-> RecordSender(req), message |-> OrEmpty(req.payload)]

ReturnedRecord(m) == [topic |-> m.topic, sender |-> m.sender, message |-> m.message]

\* The records saved with topic t, in the order of the requests.
SavedOfTopic(t) == SelectSeq([i \in 1..Len(saved) |-> SavedRecord(saved[i])],
                             LAMBDA r : r.topic = t)

\* Whether two sequences hold the same records, each as many times.
SameRecords(a, b) ==
  /\ Len(a) = Len(b)
  /\ \E p \in Permutations(1..Len(a)) : \A i \in 1..Len(a) : a[i] = b[p[i]]

\* The last n elements of a sequence, all of them when it has fewer; n >= 0.
LastN(msgs, n) ==
  SubSeq(msgs, (IF Len(msgs) > n THEN Len(msgs) - n ELSE 0) + 1, Len(msgs))

\* C4: for every integer limit supplied to GET /messages/:topic, the result is the
\* last `limit` records of the timestamp-sorted matching sequence (all of them when
\* fewer exist), and it never has more than `limit` records.  A count of records is
\* not negative: the limits looked at are 0 and above.
C4_QueryLimit ==
  (http.op = "messages" /\ ParseInt(http.param) # <<>> /\ ParseInt(http.param)[1] >= 0) =>
    LET limit == ParseInt(http.param)[1]
    IN /\ Len(sortedMessages) <= limit
       /\ sortedMessages = LastN(ArraySort(scanned), limit)

\* C6: after any sequence of successful saves, a query for topic t whose limit is at
\* least the number of saved records of topic t returns exactly one record per saved
\* record of topic t (its topic, sender and body) and no record of another topic.
C6_StoreCompleteness ==
  (http.op = "messages" /\ http.limit >= Len(SavedOfTopic(http.topic))) =>
    /\ \A i \in 1..Len(sortedMessages) : sortedMessages[i].topic = http.topic
    /\ SameRecords([i \in 1..Len(sortedMessages) |-> ReturnedRecord(sortedMessages[i])],
                   SavedOfTopic(http.topic))

\* A malformed log line: non-blank, with an unterminated quote or fewer than 4 fields.
Malformed(line) ==
  Trim(line) # <<>> /\ (EndsInQuotes(line) \/ Len(parseCSVLine(line)) < 4)

RECURSIVE JoinLines(_)
JoinLines(lines) ==
  IF lines = <<>> THEN <<>> ELSE Head(lines) \o <<"\n">> \o JoinLines(Tail(lines))

\* The store without its malformed lines.
WithoutMalformed(fs) ==
  [n \in DOMAIN fs |->
     Header \o JoinLines(SelectSeq(DataLines(fs[n]),
                                   LAMBDA l : Trim(l) # <<>> /\ ~Malformed(l)))]

\* C8: a malformed line never aborts getMessagesForTopic and never changes which
\* well-formed lines are returned: the records of well-formed lines in the result
\* are the result of the same query on the store without its malformed lines.
C8_ScanResilience ==
  http.op = "messages" =>
    /\ http.success
    /\ SelectSeq(sortedMessages, LAMBDA m : ~Malformed(m.line))
         \in {out.sortedMessages :
                out \in getMessagesForTopic(WithoutMalformed(files), http.topic, http.limit)}

\* C9: a line with an unterminated quote is skipped: no record of a
\* getMessagesForTopic result is built from such a line.
C9_UnterminatedQuoteSkipped ==
  http.op = "messages" =>
    \A i \in 1..Len(sortedMessages) : ~EndsInQuotes(sortedMessages[i].line)

\* C10: POST /save with an empty or missing username, or an empty or missing topic,
\* returns a failure and has no side effects: no file is created or changed.
C10_InvalidSaveRejected ==
  (http.op = "save" /\ (OrEmpty(http.req.username) = <<>> \/ OrEmpty(http.req.topic) = <<>>)) =>
    /\ ~http.success
    /\ files = http.preFiles

\* C3: the records of one topic, whatever files they are in and whatever order they
\* were appended in, are returned in ascending order of timestamp taken as a point
\* in time, and records with equal timestamps keep their scan order.  idx[i] is the
\* position in the scan of the i-th record returned.
C3_QueryOrdering ==
  http.op = "messages" =>
    \E idx \in [1..Len(sortedMessages) -> 1..Len(scanned)] :
      /\ \A i \in 1..Len(sortedMessages) : sortedMessages[i] = scanned[idx[i]]
      /\ \A i, j \in 1..Len(sortedMessages) :
           (/\ i < j
            /\ DateValue(sortedMessages[i].timestamp) # <<>>
            /\ DateValue(sortedMessages[j].timestamp) # <<>>) =>
             \/ DateValue(sortedMessages[i].timestamp)[1] < DateValue(sortedMessages[j].timestamp)[1]
             \/ /\ DateValue(sortedMessages[i].timestamp) = DateValue(sortedMessages[j].timestamp)
                /\ idx[i] < idx[j]

\* ------------------------------------------------------ registry claims, more

\* C11: joinTopic with an empty topic name is rejected with no side effects:
\* userCounts, the joined topics and the room memberships are unchanged and no
\* notification is emitted.
C11_EmptyTopicRejected ==
  (ev.op = "joinTopic" /\ ev.topic = <<"">>) =>
    /\ userCounts = ev.preCounts
    /\ joinedTopic = ev.preJoined
    /\ rooms = ev.preRooms
    /\ emits = <<>>

\* C17: after every joinTopic or disconnect event, each connected client currently
\* joined to topic t has received, as its most recent userCountUpdate, the current
\* value of userCounts[t].
C17_NotificationsUpToDate ==
  ev.op \in {"joinTopic", "disconnect"} =>
    \A c \in Clients :
      (connected[c] /\ joinedTopic[c] # <<>>) =>
        received[c] = <<CountOr0(userCounts, joinedTopic[c][1])>>

\* C18: the disconnect of a client joined to topic t decrements the count of t by
\* exactly one, emits one userCountUpdate with the new count to the remaining members
\* of t, and leaves every other count and every other client's joined topic
\* unchanged; the disconnect of a client that never joined changes no count and
\* emits nothing.
C18_DisconnectEffect ==
  ev.op = "disconnect" =>
    LET old == ev.preJoined[ev.client]
    IN /\ \A c \in Clients \ {ev.client} : joinedTopic[c] = ev.preJoined[c]
       /\ IF old = <<>>
            THEN userCounts = ev.preCounts /\ emits = <<>>
            ELSE /\ DOMAIN userCounts = DOMAIN ev.preCounts
                 /\ old[1] \in DOMAIN ev.preCounts
                 /\ \A t \in DOMAIN userCounts :
                      userCounts[t] = IF t = old[1] THEN ev.preCounts[t] - 1
                                      ELSE ev.preCounts[t]
                 /\ Len(emits) = 1
                 /\ emits[1].topic = old[1]
                 /\ emits[1].count = userCounts[old[1]]
                 /\ emits[1].to = {c \in Clients \ {ev.client} :
                                     connected[c] /\ joinedTopic[c] = old}

\* C19: when a client joined to topic A issues joinTopic(B) with B different from A,
\* the count of A decreases by exactly one, the count of B increases by exactly one,
\* no other count changes, and the userCountUpdate for A, with the decremented count
\* and delivered only to the remaining members of A, is emitted before the one for B,
\* with the incremented count.
C19_TopicSwitch ==
  (/\ ev.op = "joinTopic"
   /\ ev.preJoined[ev.client] # <<>>
   /\ ev.preJoined[ev.client] # ev.topic) =>
    LET A == ev.preJoined[ev.client][1]
        B == ev.topic[1]
    IN /\ CountOr0(userCounts, A) = CountOr0(ev.preCounts, A) - 1
       /\ CountOr0(userCounts, B) = CountOr0(ev.preCounts, B) + 1
       /\ \A t \in (DOMAIN userCounts \cup DOMAIN ev.preCounts) \ {A, B} :
            CountOr0(userCounts, t) = CountOr0(ev.preCounts, t)
       /\ Len(emits) = 2
       /\ emits[1].topic = A /\ emits[1].count = CountOr0(userCounts, A)
       /\ emits[1].to = {c \in Clients \ {ev.client} : connected[c] /\ joinedTopic[c] = <<A>>}
       /\ emits[2].topic = B /\ emits[2].count = CountOr0(userCounts, B)

\* C20: each connected client is in at most one topic room, and that room is the
\* topic recorded as its current joined topic.
C20_SingleMembership ==
  \A c \in Clients :
    connected[c] =>
      rooms[c] = IF joinedTopic[c] = <<>> THEN {} ELSE {joinedTopic[c][1]}

\* ------------------------------------------------------ store claims, more

\* C13: in the result of getMessagesForTopic every record whose timestamp does not
\* parse as a point in time comes before every record whose timestamp parses.
C13_UnparseableFirst ==
  http.op = "messages" =>
    \A i, j \in 1..Len(sortedMessages) :
      (/\ DateValue(sortedMessages[i].timestamp) = <<>>
       /\ DateValue(sortedMessages[j].timestamp) # <<>>) => i < j

\* C12: a storage fault during SaveMessage or GetMessages is surfaced to the caller
\* as a failure result, and leaves the store as the other operations expect it: no
\* existing file changes and no record is added (a file the failed save created
\* holds the header only).
C12_FaultSurfaced ==
  (http.op \in {"save", "messages"} /\ http.fault # "none") =>
    /\ ~http.success
    /\ http.status >= 500
    /\ http.op = "messages" => files = StoreAfter(saved)
    /\ http.op = "save" =>
         \A n \in DOMAIN files :
           IF n \in DOMAIN http.preFiles THEN files[n] = http.preFiles[n]
           ELSE files[n] = Header

\* The encoded records of the requests whose file is name, in order.
RECURSIVE UserLines(_, _)
UserLines(name, reqs) ==
  IF reqs = <<>> THEN <<>>
  ELSE (IF FileName(Head(reqs).username) = name THEN SaveLine(Head(reqs)) ELSE <<>>)
         \o UserLines(name, Tail(reqs))

IsPrefix(a, b) == Len(a) <= Len(b) /\ SubSeq(b, 1, Len(a)) = a

\* C14: after any sequence of saves every log file is the header line, exactly once
\* and first, followed by the encoded records of its user in append order; each save
\* only extends its file and leaves every other file unchanged.
C14_AppendOnlyLog ==
  /\ DOMAIN files = {FileName(saved[i].username) : i \in 1..Len(saved)}
  /\ \A n \in DOMAIN files :
       /\ files[n] = Header \o UserLines(n, saved)
       /\ \A k \in 2..Len(files[n]) : files[n][k] # Header[1]
  /\ http.op = "save" =>
       /\ DOMAIN files = DOMAIN http.preFiles \cup {FileName(http.req.username)}
       /\ \A n \in DOMAIN http.preFiles :
            IF n = FileName(http.req.username)
              THEN IsPrefix(http.preFiles[n], files[n]) /\ files[n] # http.preFiles[n]
              ELSE files[n] = http.preFiles[n]

\* Two records were appended to one file.
C14_Witness ==
  /\ http.op = "save"
  /\ Len(saved) = 2
  /\ FileName(saved[1].username) = FileName(saved[2].username)
  /\ saved[1] # saved[2]

\* C15: whatever the overlap of the /save requests, once no handler is in the
\* middle of its work every file is the header, once, followed by the complete lines
\* of the requests served for it, in some order of those requests: no line is lost
\* or cut and no second header is written.
C15_SavesSerialized ==
  (\A i \in 1..Len(handlers) : handlers[i].pc \in {"received", "done"}) =>
    /\ Len(saved) = Cardinality({i \in 1..Len(handlers) : handlers[i].pc = "done"})
    /\ DOMAIN files = {FileName(saved[i].username) : i \in 1..Len(saved)}
    /\ \E p \in Permutations(1..Len(saved)) :
         \A n \in DOMAIN files :
           files[n] = Header \o UserLines(n, [i \in 1..Len(saved) |-> saved[p[i]]])

\* Two requests of one user were both received before either was served, and the
\* one received second was served first.
C15_Witness ==
  /\ Len(handlers) = 2
  /\ handlers[1].pc = "done" /\ handlers[2].pc = "done"
  /\ handlers[1].req.username = handlers[2].req.username
  /\ handlers[1].req # handlers[2].req
  /\ saved = <<handlers[2].req, handlers[1].req>>

Digits == {"0", "1", "2", "3", "4", "5", "6", "7", "8", "9"}

\* A decimal numeral: an optional sign and one or more digits, nothing else.
IsNumeral(s) ==
  LET body == IF s # <<>> /\ s[1] \in {"-", "+"} THEN Tail(s) ELSE s
  IN body # <<>> /\ \A k \in 1..Len(body) : body[k] \in Digits

\* A string with an integer at its start, after white space and an optional sign.
HasLeadingInteger(s) ==
  \E k \in 1..Len(s) :
    /\ s[k] \in Digits
    /\ \A m \in 1..(k - 1) : s[m] \in WhiteSpace \/ (m = k - 1 /\ s[m] \in {"-", "+"})

\* The answers GET /messages/:topic may give with limit=10.
WithLimitTen(topic) == getMessagesForTopic(files, topic, QueryLimit(<< <<"1", "0">> >>))

====
